---- MODULE Spec2Model ----
(***************************************************************************)
(* Game-state synchronisation and buzzer arbitration of the Family Feud    *)
(* control application (src/src/app/page.tsx).                             *)
(*                                                                         *)
(* The store holds the single game_state row (id = 1).  Every client (the  *)
(* host panel and the buzzer devices) keeps a local copy `gameState` of    *)
(* that row, refreshed only by the realtime change feed.  A handler reads  *)
(* the client's local copy and issues one update against the store; the    *)
(* store applies the update to the row it holds and pushes the new row     *)
(* image to every subscribed client, which receives it later, in order.    *)
(*                                                                         *)
(* A buzzer device's copy is kept as the fields BuzzerPage reads           *)
(* (buzzer_state, buzzer_winner and the two team names).                   *)
(***************************************************************************)
EXTENDS Integers, Sequences, FiniteSets, TLC

VARIABLES
    gs,               \* the stored game_state row
    gameState,        \* gameState[c]: client c's local copy of the row
    feed,             \* feed[c]: row images pushed to c and not yet received
    currentQuestion,  \* the host's derived currentQuestion (a question id or NULL)
    last,             \* history: the last handler run, [op, arg, res, lag, rep]
                      \*   res: "applied" (row written), "rejected" (filter matched
                      \*        no row) or "skipped" (returned before writing)
                      \*   lag: for an applied reveal, the images pending at the host
                      \*        right after it; rep: the run before was the same
                      \*        handler with the same argument, and was applied
    claimed,          \* history: the teams whose claim took effect since the last
                      \*   arming write, in order
    calc,             \* one evaluation of getPoints: [order, done, points]
    imp,              \* the bulk importer: [pc, input, i, newQuestions, log, rows,
                      \*   status]; log: the inserts issued, in order, each with the
                      \*   store's verdict; rows: the rows the store has committed
    ui,               \* one browser tab: [hash, page, isAdmin, session, loaded,
                      \*   password, submitted]; hash: window.location.hash; session:
                      \*   the is_admin flag of sessionStorage; loaded: gameState is
                      \*   set; submitted: the outcome of the last handleLogin on the
                      \*   login view shown ("none", "wrong", "right")
    conn,             \* conn[c]: client c's start-up, [sub, loaded, fetch, data,
                      \*   age, dataAge]
                      \*   sub: the store has registered c's game_state_updates
                      \*        subscription; loaded: c's gameState is set (not null)
                      \*   fetch: fetchGameState is "sent", "read" (the store has read
                      \*        the row, the reply `data` is on its way) or "done"
                      \*   age: the number of applied updates of the row that are
                      \*        later than the image c's gameState holds;
                      \*        dataAge: the same for the reply `data` on its way
    questionRows,     \* the ids of the rows of the store's questions table
    editorData        \* the host's editorData: the ids of the questions loaded

vars == <<gs, gameState, feed, currentQuestion, last, claimed, calc, conn, imp, ui,
          questionRows, editorData>>

\* What the game handlers and the change feed leave alone.
side == <<calc, imp, ui, questionRows, editorData>>

NULL == "null"

\* ---------------------------------------------------------------- bounds
\* A handler runs only while at most MaxPending pushed row images are still
\* undelivered (summed over the clients): the bound on how stale the clients get.
MaxPending == 1
\* Give Strike, the button the host clicks in quick succession, is also clicked
\* while the buzzer devices have received everything and at most MaxHostLag pushed
\* row images are still undelivered to the host.
MaxHostLag == 2
\* A reveal is issued only while the scores it writes stay within MaxScore.
MaxScore == 5
\* The same limit for the question of the play-through, whose answers are worth
\* 50, 40 and 30 points.
MaxPlayScore == 90
\* The importer is given arrays of at most MaxRounds rounds.
MaxRounds == 2
\* getPoints is evaluated for the display orders from -MaxRank to MaxRank.
MaxRank == 50
\* While a device is mounting App, the host and the other devices write only while
\* that device's gameState and the fetch reply on its way are fewer than MaxAge
\* updates behind the stored row.
MaxAge == 2

\* ---------------------------------------------------------------- content
Teams == {"a", "b"}

Host == "host"

\* One buzzer device per team; the device's team is the one kept in sessionStorage.
Buzzers == {"buzzA", "buzzB"}

Clients == {Host} \cup Buzzers

team(c) == IF c = "buzzA" THEN "a" ELSE "b"

\* editorData: the questions of the loaded rounds.
Questions == {"q1", "q2"}

\* The question the host selects in the game at large; "q2" is the question of
\* the play-through.
Played == {"q1"}

\* question.answers, sorted by display_order as fetchEditorData leaves them.
answers(q) ==
    CASE q = "q1" -> <<"a1", "a2">>
      [] q = "q2" -> <<"b1", "b2", "b3">>
      [] OTHER -> <<>>

AnswerIds == {"a1", "a2", "b1", "b2", "b3"}

display_order(x) ==
    CASE x = "a1" -> 7
      [] x = "a2" -> 9
      [] x = "b1" -> 1
      [] x = "b2" -> 2
      [] OTHER -> 3

ScoreCap(q) == IF q = "q2" THEN MaxPlayScore ELSE MaxScore

\* Number(score) of what the host types into the manual score editor: a number,
\* or NaN for a text that is no number.
ScoreInputs ==
    {[nan |-> FALSE, val |-> -5], [nan |-> FALSE, val |-> 3], [nan |-> TRUE, val |-> 0]}

isNaN(score) == score.nan

\* Values the host types into the team name editor.
NameInputs == {"X"}

\* ---------------------------------------------------------------- scoring
\* Mutant of POINTS_MAP: rank 7 is worth 10 points.
POINTS_MAPSevenTen == [r \in 1..8 |-> CASE r = 1 -> 50 [] r = 2 -> 40 [] r = 3 -> 30
                                        [] r = 4 -> 20 [] r = 5 -> 15 [] r = 6 -> 10
                                        [] r = 7 -> 10 [] OTHER -> 5]

POINTS_MAP == [r \in 1..8 |-> CASE r = 1 -> 50 [] r = 2 -> 40 [] r = 3 -> 30
                                [] r = 4 -> 20 [] r = 5 -> 15 [] r = 6 -> 10
                                [] OTHER -> 5]

\* Mutant of getPoints: an order above the table is worth what rank 8 is.
getPointsClamped(order) ==
    IF order \in DOMAIN POINTS_MAP THEN POINTS_MAP[order]
    ELSE IF order > 8 THEN POINTS_MAP[8] ELSE 0

\* POINTS_MAP[order] || 0: an order that is no key of the table gives undefined.
getPoints(order) == IF order \in DOMAIN POINTS_MAP THEN POINTS_MAP[order] ELSE 0

\* ---------------------------------------------------------------- helpers
Range(s) == {s[i] : i \in 1..Len(s)}

includes(s, x) == x \in Range(s)

\* currentQuestion.answers.map(a => a.id)
AllAnswerIds(q) == answers(q)

\* ---------------------------------------------------------------- the store
\* supabase.from('game_state').update(patch).eq('id', 1): the fields of the patch
\* replace those of the row, every other field keeps its stored value.
Update(row, patch) ==
    [f \in DOMAIN row |-> IF f \in DOMAIN patch THEN patch[f] ELSE row[f]]

\* Mutant of Matches: only the .eq('id', 1) filter is honoured.
MatchesIdOnly(row, cond) == row.id = cond.id

\* .eq(field, value) filters: the update matches the row only if they all hold.
Matches(row, cond) == \A f \in DOMAIN cond : row[f] = cond[f]

NoCond == [id |-> 1]

InitialRow ==
    [id |-> 1,
     current_question_id |-> NULL,
     team_a_score |-> 0,
     team_b_score |-> 0,
     team_a_name |-> "A",
     team_b_name |-> "B",
     revealed_answers_json |-> <<>>,
     buzzer_state |-> "armed",
     buzzer_winner |-> NULL,
     strikes |-> 0]

\* What BuzzerPage reads of the gameState it is given.
BuzzerView(row) ==
    [buzzer_state |-> row.buzzer_state,
     buzzer_winner |-> row.buzzer_winner,
     team_a_name |-> row.team_a_name,
     team_b_name |-> row.team_b_name]

\* payload.new as client c keeps it.
Image(c, row) == IF c = Host THEN row ELSE BuzzerView(row)

RECURSIVE SumLen(_, _)
SumLen(f, S) ==
    IF S = {} THEN 0
    ELSE LET c == CHOOSE x \in S : TRUE IN Len(f[c]) + SumLen(f, S \ {c})

\* The number of pushed row images not yet received.
Pending == SumLen(feed, Clients)

CanRun == Pending <= MaxPending

CanRunLagging ==
    \/ CanRun
    \/ (SumLen(feed, Buzzers) = 0 /\ Len(feed[Host]) <= MaxHostLag)

ArmOps == {"setQuestion", "clearBoard", "giveStrike", "resetBuzzers"}

Repeats(op, arg) == last.op = op /\ last.arg = arg /\ last.res = "applied"

\* One update request reaching the store: applied if its filters match the stored
\* row, and then the new row image is pushed to every subscriber.  An update whose
\* filters match no row changes nothing and pushes nothing.
Write(op, arg, patch, cond) ==
    /\ IF Matches(gs, cond)
         THEN /\ gs' = Update(gs, patch)
              /\ feed' = [c \in Clients |-> IF conn[c].sub
                                                THEN Append(feed[c], Image(c, gs'))
                                                ELSE feed[c]]
              /\ last' = [op |-> op, arg |-> arg, res |-> "applied",
                          lag |-> IF op = "reveal" THEN Len(feed[Host]) + 1 ELSE 0,
                          rep |-> Repeats(op, arg)]
              /\ claimed' = IF op \in ArmOps THEN <<>>
                            ELSE IF op = "buzz" THEN Append(claimed, arg)
                            ELSE claimed
              /\ conn' = [c \in Clients |->
                            [conn[c] EXCEPT !.age = @ + 1,
                                            !.dataAge = IF conn[c].fetch = "read"
                                                          THEN @ + 1 ELSE @]]
         ELSE /\ last' = [op |-> op, arg |-> arg, res |-> "rejected", lag |-> 0,
                          rep |-> Repeats(op, arg)]
              /\ UNCHANGED <<gs, feed, claimed, conn>>
    /\ UNCHANGED <<gameState, currentQuestion, side>>

\* A handler that returns before it writes (or a click on a disabled button).
Skip(op, arg) ==
    /\ last' = [op |-> op, arg |-> arg, res |-> "skipped", lag |-> 0,
                rep |-> Repeats(op, arg)]
    /\ UNCHANGED <<gs, feed, claimed, gameState, currentQuestion, conn, side>>

\* ---------------------------------------------------------------- host handlers
handleSetTeamName(t, name) ==
    /\ CanRun
    /\ Write("setTeamName", t,
             IF t = "a" THEN [team_a_name |-> name] ELSE [team_b_name |-> name],
             NoCond)

\* Mutant of handleSetScore: a negative score is stored as 0.
handleSetScoreNonNegative(t, score) ==
    LET newScore == IF isNaN(score) \/ score.val < 0 THEN 0 ELSE score.val IN
    /\ CanRun
    /\ Write("setScore", [team |-> t, score |-> score],
             IF t = "a" THEN [team_a_score |-> newScore]
             ELSE [team_b_score |-> newScore],
             NoCond)

handleSetScore(t, score) ==
    LET newScore == IF isNaN(score) THEN 0 ELSE score.val IN
    /\ CanRun
    /\ Write("setScore", [team |-> t, score |-> score],
             IF t = "a" THEN [team_a_score |-> newScore]
             ELSE [team_b_score |-> newScore],
             NoCond)

\* Mutant of handleSetQuestion: the patch leaves strikes out.
handleSetQuestionKeepStrikes(qId) ==
    /\ CanRun
    /\ Write("setQuestion", qId,
             [current_question_id |-> qId,
              buzzer_state |-> "armed",
              buzzer_winner |-> NULL,
              revealed_answers_json |-> <<>>],
             NoCond)

handleSetQuestion(qId) ==
    /\ CanRun
    /\ Write("setQuestion", qId,
             [current_question_id |-> qId,
              buzzer_state |-> "armed",
              buzzer_winner |-> NULL,
              revealed_answers_json |-> <<>>,
              strikes |-> 0],
             NoCond)

\* Mutant of handleResetBuzzers: re-arms and leaves buzzer_winner as it is.
handleResetBuzzersKeepWinner ==
    /\ CanRun
    /\ IF gameState[Host].buzzer_state = "armed"
         THEN Skip("resetBuzzers", NULL)
         ELSE Write("resetBuzzers", NULL, [buzzer_state |-> "armed"], NoCond)

\* Mutant of handleResetBuzzers: the reset also clears the strikes.
handleResetBuzzersClearsStrikes ==
    /\ CanRun
    /\ IF gameState[Host].buzzer_state = "armed"
         THEN Skip("resetBuzzers", NULL)
         ELSE Write("resetBuzzers", NULL,
                    [buzzer_state |-> "armed", buzzer_winner |-> NULL, strikes |-> 0],
                    NoCond)

handleResetBuzzers ==
    /\ CanRun
    /\ IF gameState[Host].buzzer_state = "armed"
         THEN \* BuzzerStatus renders the Reset Buzzers button in the locked panel only
              Skip("resetBuzzers", NULL)
         ELSE Write("resetBuzzers", NULL,
                    [buzzer_state |-> "armed", buzzer_winner |-> NULL], NoCond)

\* Mutant of handleClearBoard: the revealed answers are left as they are.
handleClearBoardKeepsRevealed ==
    /\ CanRun
    /\ Write("clearBoard", NULL,
             [current_question_id |-> NULL,
              buzzer_state |-> "armed",
              buzzer_winner |-> NULL,
              strikes |-> 0],
             NoCond)

handleClearBoard ==
    /\ CanRun
    /\ Write("clearBoard", NULL,
             [current_question_id |-> NULL,
              buzzer_state |-> "armed",
              buzzer_winner |-> NULL,
              revealed_answers_json |-> <<>>,
              strikes |-> 0],
             NoCond)

\* Mutant of handleResetScores: only team a's score is zeroed.
handleResetScoresOnlyA ==
    /\ CanRun
    /\ Write("resetScores", NULL, [team_a_score |-> 0], NoCond)

handleResetScores ==
    /\ CanRun
    /\ Write("resetScores", NULL, [team_a_score |-> 0, team_b_score |-> 0], NoCond)

\* Mutant of handleGiveStrike: the strike re-arms and leaves buzzer_winner as it is.
handleGiveStrikeKeepsWinner ==
    LET currentStrikes == gameState[Host].strikes IN
    /\ CanRunLagging
    /\ IF gameState[Host].strikes >= 3 \/ currentQuestion = NULL
         THEN Skip("giveStrike", NULL)
         ELSE IF currentStrikes >= 3
           THEN Skip("giveStrike", NULL)
           ELSE Write("giveStrike", NULL,
                      [strikes |-> currentStrikes + 1, buzzer_state |-> "armed"],
                      NoCond)

\* Mutant of handleGiveStrike: no test of the cap, in the button or in the handler.
handleGiveStrikeNoCap ==
    LET currentStrikes == gameState[Host].strikes IN
    /\ CanRunLagging
    /\ IF currentQuestion = NULL
         THEN Skip("giveStrike", NULL)
         ELSE Write("giveStrike", NULL,
                    [strikes |-> currentStrikes + 1,
                     buzzer_state |-> "armed",
                     buzzer_winner |-> NULL],
                    NoCond)

handleGiveStrike ==
    LET currentStrikes == gameState[Host].strikes IN
    /\ CanRunLagging
    /\ IF gameState[Host].strikes >= 3 \/ currentQuestion = NULL
         THEN \* the Give Strike button is disabled
              Skip("giveStrike", NULL)
         ELSE IF currentStrikes >= 3
           THEN Skip("giveStrike", NULL)
           ELSE Write("giveStrike", NULL,
                      [strikes |-> currentStrikes + 1,
                       buzzer_state |-> "armed",
                       buzzer_winner |-> NULL],
                      NoCond)

\* The body of handleRevealAnswer, with its two early-return tests as parameters.
RevealAnswerWith(answer, checkRevealed, checkWinner, clearWinner) ==
    LET g == gameState[Host]
        revealedAnswers == g.revealed_answers_json
        points == getPoints(display_order(answer))
        newScoreA == IF g.buzzer_winner = "a" THEN g.team_a_score + points
                     ELSE g.team_a_score
        newScoreB == IF g.buzzer_winner = "b" THEN g.team_b_score + points
                     ELSE g.team_b_score
        patch == [team_a_score |-> newScoreA,
                  team_b_score |-> newScoreB,
                  revealed_answers_json |-> Append(revealedAnswers, answer),
                  buzzer_state |-> "locked"]
    IN
    /\ CanRun
    /\ currentQuestion # NULL
    /\ includes(answers(currentQuestion), answer)
    /\ newScoreA <= ScoreCap(currentQuestion)
    /\ newScoreB <= ScoreCap(currentQuestion)
    /\ IF \/ (checkRevealed /\ includes(revealedAnswers, answer))
          \/ (checkWinner /\ g.buzzer_winner = NULL)
         THEN Skip("reveal", answer)
         ELSE Write("reveal", answer,
                    IF clearWinner
                      THEN [f \in DOMAIN patch \cup {"buzzer_winner"} |->
                              IF f = "buzzer_winner" THEN NULL ELSE patch[f]]
                      ELSE patch,
                    NoCond)

\* Mutant of handleRevealAnswer: no test that the answer is already revealed.
handleRevealAnswerNoRevealedCheck(answer) == RevealAnswerWith(answer, FALSE, TRUE, FALSE)

\* Mutant of handleRevealAnswer: no test that a team holds the buzzer.
handleRevealAnswerNoWinnerCheck(answer) == RevealAnswerWith(answer, TRUE, FALSE, FALSE)

\* Mutant of handleRevealAnswer: the patch also clears buzzer_winner.
handleRevealAnswerClearsWinner(answer) == RevealAnswerWith(answer, TRUE, TRUE, TRUE)

\* The answer rows on the host's board are those of currentQuestion.
handleRevealAnswer(answer) ==
    LET g == gameState[Host]
        revealedAnswers == g.revealed_answers_json
        points == getPoints(display_order(answer))
        newScoreA == IF g.buzzer_winner = "a" THEN g.team_a_score + points
                     ELSE g.team_a_score
        newScoreB == IF g.buzzer_winner = "b" THEN g.team_b_score + points
                     ELSE g.team_b_score
    IN
    /\ CanRun
    /\ currentQuestion # NULL
    /\ includes(answers(currentQuestion), answer)
    /\ newScoreA <= ScoreCap(currentQuestion)
    /\ newScoreB <= ScoreCap(currentQuestion)
    /\ IF includes(revealedAnswers, answer) \/ g.buzzer_winner = NULL
         THEN Skip("reveal", answer)
         ELSE Write("reveal", answer,
                    [team_a_score |-> newScoreA,
                     team_b_score |-> newScoreB,
                     revealed_answers_json |-> Append(revealedAnswers, answer),
                     buzzer_state |-> "locked"],
                    NoCond)

\* Mutant of handleRevealAll: the team holding the buzzer is awarded the points of
\* the answers not yet revealed.
handleRevealAllScoring ==
    LET g == gameState[Host]
        RECURSIVE Rest(_)
        Rest(ids) == IF ids = <<>> THEN 0
                     ELSE (IF includes(g.revealed_answers_json, Head(ids)) THEN 0
                           ELSE getPoints(display_order(Head(ids)))) + Rest(Tail(ids))
        bonus == IF currentQuestion = NULL THEN 0 ELSE Rest(answers(currentQuestion))
    IN
    /\ CanRun
    /\ IF currentQuestion = NULL
         THEN Skip("revealAll", NULL)
         ELSE Write("revealAll", NULL,
                    [team_a_score |-> IF g.buzzer_winner = "a"
                                        THEN g.team_a_score + bonus
                                        ELSE g.team_a_score,
                     revealed_answers_json |-> AllAnswerIds(currentQuestion),
                     buzzer_state |-> "locked",
                     buzzer_winner |-> NULL],
                    NoCond)

\* Mutant of handleRevealAll: the patch arms the buzzer.
handleRevealAllArms ==
    /\ CanRun
    /\ IF currentQuestion = NULL
         THEN Skip("revealAll", NULL)
         ELSE Write("revealAll", NULL,
                    [revealed_answers_json |-> AllAnswerIds(currentQuestion),
                     buzzer_state |-> "armed",
                     buzzer_winner |-> NULL],
                    NoCond)

handleRevealAll ==
    /\ CanRun
    /\ IF currentQuestion = NULL
         THEN Skip("revealAll", NULL)
         ELSE Write("revealAll", NULL,
                    [revealed_answers_json |-> AllAnswerIds(currentQuestion),
                     buzzer_state |-> "locked",
                     buzzer_winner |-> NULL],
                    NoCond)

\* ---------------------------------------------------------------- buzzer handler
\* Mutant of handleBuzz: the update carries no .eq('buzzer_state', 'armed') filter.
handleBuzzNoFilter(c) ==
    /\ CanRun
    /\ IF team(c) = NULL \/ gameState[c].buzzer_state # "armed"
         THEN Skip("buzz", team(c))
         ELSE Write("buzz", team(c),
                    [buzzer_state |-> "locked", buzzer_winner |-> team(c)],
                    NoCond)

\* Mutant of handleBuzz: the claim also clears the strikes.
handleBuzzClearsStrikes(c) ==
    /\ CanRun
    /\ IF team(c) = NULL \/ gameState[c].buzzer_state # "armed"
         THEN Skip("buzz", team(c))
         ELSE Write("buzz", team(c),
                    [buzzer_state |-> "locked", buzzer_winner |-> team(c), strikes |-> 0],
                    [id |-> 1, buzzer_state |-> "armed"])

handleBuzz(c) ==
    /\ CanRun
    /\ IF team(c) = NULL \/ gameState[c].buzzer_state # "armed"
         THEN Skip("buzz", team(c))
         ELSE Write("buzz", team(c),
                    [buzzer_state |-> "locked", buzzer_winner |-> team(c)],
                    [id |-> 1, buzzer_state |-> "armed"])

\* ---------------------------------------------------------------- change feed
\* The derived-state effect: run after gameState (or editorData) changed.
DeriveCurrentQuestion(g, data, prev) ==
    IF g.current_question_id # NULL
      THEN IF g.current_question_id \in data
             THEN g.current_question_id
             ELSE prev
      ELSE NULL

\* The game_state_updates callback: setGameState(payload.new), then the effect.
\* The images are delivered in the order of the updates, so the one received is
\* older than the stored row by the updates still waiting in the feed.
Receive(c) ==
    /\ feed[c] # <<>>
    /\ gameState' = [gameState EXCEPT ![c] = Head(feed[c])]
    /\ feed' = [feed EXCEPT ![c] = Tail(feed[c])]
    /\ currentQuestion' = IF c = Host
                            THEN DeriveCurrentQuestion(Head(feed[c]), editorData,
                                                       currentQuestion)
                            ELSE currentQuestion
    /\ conn' = [conn EXCEPT ![c].loaded = TRUE, ![c].age = Len(Tail(feed[c]))]
    /\ UNCHANGED <<gs, last, claimed, side>>

\* ---------------------------------------------------------------- bulk import
\* What the host pastes into the importer: a text that is no JSON ("text"), a
\* JSON value that is no array ("value"), or an array.  An element of the array
\* is a round, [ok |-> TRUE, questions |-> the answer orders of each question],
\* or an object without a questions list (ok |-> FALSE).
RoundInputs ==
    {[ok |-> FALSE, questions |-> <<>>],
     [ok |-> TRUE, questions |-> <<>>],
     [ok |-> TRUE, questions |-> <<(<<7>>)>>],
     [ok |-> TRUE, questions |-> <<(<<1, 2>>), <<>>>>]}

RECURSIVE SeqsUpTo(_, _)
SeqsUpTo(S, n) ==
    IF n = 0 THEN {<<>>}
    ELSE LET shorter == SeqsUpTo(S, n - 1)
         IN shorter \cup {Append(q, x) : q \in shorter, x \in S}

ImportInputs ==
    {[kind |-> "text", rounds |-> <<>>], [kind |-> "value", rounds |-> <<>>]}
      \cup {[kind |-> "array", rounds |-> r] : r \in SeqsUpTo(RoundInputs, MaxRounds)}

\* The importer modal as it opens, jsonText being `input`.
ImporterOpened(input) ==
    [pc |-> "idle", input |-> input, i |-> 1, newQuestions |-> <<>>,
     log |-> <<>>, rows |-> {}, status |-> [message |-> "", error |-> FALSE]]

\* The orders in which the store may return n inserted rows.
Orders(n) == {p \in [1..n -> 1..n] : \A x, y \in 1..n : p[x] = p[y] => x = y}

RECURSIVE SumAnswers(_)
SumAnswers(questions) ==
    IF questions = <<>> THEN 0 ELSE Len(Head(questions)) + SumAnswers(Tail(questions))

Row(table, round, q, from, ord) ==
    [table |-> table, round |-> round, q |-> q, from |-> from, ord |-> ord]

\* catch (e): setStatus({ message, error: true }); setIsLoading(false)
Failed(message) ==
    [imp EXCEPT !.pc = "failed", !.status = [message |-> message, error |-> TRUE]]

\* The end of one pass of `for (const round of data)`: the next round, or the
\* success report after the last one.
Continue(m) ==
    IF m.i < Len(m.input.rounds)
      THEN [m EXCEPT !.pc = "round", !.i = m.i + 1, !.newQuestions = <<>>]
      ELSE [m EXCEPT !.pc = "done", !.newQuestions = <<>>,
                     !.status = [message |-> "complete", error |-> FALSE]]

\* handleImport up to its first insert: JSON.parse and the Array.isArray test.
handleImport ==
    /\ imp.pc = "idle"
    /\ imp' = IF imp.input.kind # "array"
                THEN Failed("Invalid JSON")
                ELSE IF imp.input.rounds = <<>>
                  THEN [imp EXCEPT !.pc = "done",
                                   !.status = [message |-> "complete", error |-> FALSE]]
                  ELSE [imp EXCEPT !.pc = "round", !.i = 1]
    /\ UNCHANGED <<gs, gameState, feed, currentQuestion, last, claimed, calc, conn, ui,
                   questionRows, editorData>>

\* Mutant of InsertRound: a rejected insert of the round is ignored.
InsertRoundIgnoresError ==
    /\ imp.pc = "round"
    /\ \E ok \in BOOLEAN :
         LET round == imp.input.rounds[imp.i]
             m == [imp EXCEPT !.log = Append(@, [table |-> "rounds", round |-> imp.i,
                                                 ok |-> ok]),
                              !.rows = IF ok THEN @ \cup {Row("rounds", imp.i, 0, 0, 0)}
                                       ELSE @]
         IN imp' = IF ~round.ok
                     THEN [m EXCEPT !.pc = "failed",
                                    !.status = [message |-> "TypeError", error |-> TRUE]]
                   ELSE IF round.questions = <<>>
                     THEN Continue(m)
                   ELSE [m EXCEPT !.pc = "questions"]
    /\ UNCHANGED <<gs, gameState, feed, currentQuestion, last, claimed, calc, conn, ui,
                   questionRows, editorData>>

\* 1. Insert the Round; 2. prepare its questions (round.questions.map throws a
\* TypeError if the element has no questions list); a round without questions
\* is done.
InsertRound ==
    /\ imp.pc = "round"
    /\ \E ok \in BOOLEAN :
         LET round == imp.input.rounds[imp.i]
             m == [imp EXCEPT !.log = Append(@, [table |-> "rounds", round |-> imp.i,
                                                 ok |-> ok]),
                              !.rows = IF ok THEN @ \cup {Row("rounds", imp.i, 0, 0, 0)}
                                       ELSE @]
         IN imp' = IF ~ok
                     THEN [m EXCEPT !.pc = "failed",
                                    !.status = [message |-> "Failed to create round",
                                                error |-> TRUE]]
                   ELSE IF ~round.ok
                     THEN [m EXCEPT !.pc = "failed",
                                    !.status = [message |-> "TypeError", error |-> TRUE]]
                   ELSE IF round.questions = <<>>
                     THEN Continue(m)
                   ELSE [m EXCEPT !.pc = "questions"]
    /\ UNCHANGED <<gs, gameState, feed, currentQuestion, last, claimed, calc, conn, ui,
                   questionRows, editorData>>

\* 3. Insert the questions of the round in one request; the store returns the new
\* rows in an order of its own; 4. the answers are prepared from them.
InsertQuestions ==
    /\ imp.pc = "questions"
    /\ LET round == imp.input.rounds[imp.i]
           n == Len(round.questions)
       IN \E ok \in BOOLEAN, p \in Orders(n) :
            LET m == [imp EXCEPT !.log = Append(@, [table |-> "questions",
                                                    round |-> imp.i, ok |-> ok]),
                                 !.rows = IF ok
                                            THEN @ \cup {Row("questions", imp.i, j, j, 0) :
                                                           j \in 1..n}
                                            ELSE @]
            IN imp' = IF ~ok
                        THEN [m EXCEPT !.pc = "failed",
                                       !.status = [message |-> "Failed to create questions",
                                                   error |-> TRUE]]
                      ELSE IF SumAnswers(round.questions) = 0
                        THEN Continue(m)
                      ELSE [m EXCEPT !.pc = "answers",
                                     !.newQuestions = [j \in 1..n |-> p[j]]]
    /\ UNCHANGED <<gs, gameState, feed, currentQuestion, last, claimed, calc, conn, ui,
                   questionRows, editorData>>

\* 5. Insert all the answers of the round in one request: the answers listed
\* under the i-th question of the input get the id of newQuestions[i].
InsertAnswers ==
    /\ imp.pc = "answers"
    /\ LET round == imp.input.rounds[imp.i]
           n == Len(imp.newQuestions)
       IN \E ok \in BOOLEAN :
            LET m == [imp EXCEPT !.log = Append(@, [table |-> "answers",
                                                    round |-> imp.i, ok |-> ok]),
                                 !.rows = IF ok
                                            THEN @ \cup UNION {
                                                   {Row("answers", imp.i,
                                                        imp.newQuestions[j], j,
                                                        round.questions[j][k]) :
                                                      k \in 1..Len(round.questions[j])} :
                                                   j \in 1..n}
                                            ELSE @]
            IN imp' = IF ~ok
                        THEN [m EXCEPT !.pc = "failed",
                                       !.status = [message |-> "Failed to create answers",
                                                   error |-> TRUE]]
                      ELSE Continue(m)
    /\ UNCHANGED <<gs, gameState, feed, currentQuestion, last, claimed, calc, conn, ui,
                   questionRows, editorData>>

\* ---------------------------------------------------------------- routing, login
Hashes == {"", "#host", "#display", "#buzzer", "#login", "#editor"}

adminPassword == "asdfasdf@123"

\* What the user types into the password field.
PasswordInputs == {adminPassword, "guess"}

\* Mutant of renderPage: the editor is rendered without the isAdmin test.
renderPageEditorOpen(page, isAdmin, loaded) ==
    IF ~loaded THEN "loading"
    ELSE CASE page = "#host" -> IF ~isAdmin THEN "null" ELSE "host"
           [] page = "#display" -> "display"
           [] page = "#buzzer" -> "buzzer"
           [] page = "#login" -> "login"
           [] page = "#editor" -> "editor"
           [] OTHER -> "login"

\* The view renderPage returns; "null" is the empty render that goes with the
\* redirect to #login.
renderPage(page, isAdmin, loaded) ==
    IF ~loaded THEN "loading"
    ELSE CASE page = "#host" -> IF ~isAdmin THEN "null" ELSE "host"
           [] page = "#display" -> "display"
           [] page = "#buzzer" -> "buzzer"
           [] page = "#login" -> "login"
           [] page = "#editor" -> IF ~isAdmin THEN "null" ELSE "editor"
           [] OTHER -> "login"

View(u) == renderPage(u.page, u.isAdmin, u.loaded)

\* A render of App: an empty render sets window.location.hash = '#login'; a
\* LoginPage that is not shown loses its state.
Rendered(u) ==
    LET v == IF View(u) = "null" THEN [u EXCEPT !.hash = "#login"] ELSE u
    IN IF View(v) = "login" THEN v
       ELSE [v EXCEPT !.password = "", !.submitted = "none"]

\* App mounted in a tab opened at `hash`: the effect has read the session flag
\* and the hash; gameState is not fetched yet.
Opened(hash) ==
    [hash |-> hash, page |-> hash, isAdmin |-> FALSE, session |-> FALSE,
     loaded |-> FALSE, password |-> "", submitted |-> "none"]

\* fetchGameState has set gameState: the page is rendered.
GameStateLoaded ==
    /\ ~ui.loaded
    /\ ui' = Rendered([ui EXCEPT !.loaded = TRUE])
    /\ UNCHANGED <<gs, gameState, feed, currentQuestion, last, claimed, calc, conn, imp,
                   questionRows, editorData>>

\* The user changes the URL fragment (or follows a link).
Navigate(hash) ==
    /\ ui.hash = ui.page
    /\ hash # ui.hash
    /\ ui' = [ui EXCEPT !.hash = hash]
    /\ UNCHANGED <<gs, gameState, feed, currentQuestion, last, claimed, calc, conn, imp,
                   questionRows, editorData>>

\* The hashchange listener: setPage(window.location.hash), and the render.
handleHashChange ==
    /\ ui.hash # ui.page
    /\ ui' = Rendered([ui EXCEPT !.page = ui.hash])
    /\ UNCHANGED <<gs, gameState, feed, currentQuestion, last, claimed, calc, conn, imp,
                   questionRows, editorData>>

\* The user reloads the tab: App mounts again, sessionStorage is kept.
Reload ==
    /\ ui.hash = ui.page
    /\ ui.loaded
    /\ ui' = [Opened(ui.hash) EXCEPT !.isAdmin = ui.session, !.session = ui.session]
    /\ UNCHANGED <<gs, gameState, feed, currentQuestion, last, claimed, calc, conn, imp,
                   questionRows, editorData>>

\* onChange of the password field.
TypePassword(password) ==
    /\ View(ui) = "login"
    /\ ui.hash = ui.page
    /\ password # ui.password
    /\ ui' = [ui EXCEPT !.password = password]
    /\ UNCHANGED <<gs, gameState, feed, currentQuestion, last, claimed, calc, conn, imp,
                   questionRows, editorData>>

handleLogin ==
    /\ View(ui) = "login"
    /\ ui.hash = ui.page
    /\ ui' = IF ui.password = adminPassword
               THEN Rendered([ui EXCEPT !.submitted = "right",
                                        !.session = TRUE,
                                        !.isAdmin = TRUE,
                                        !.hash = "#host"])
               ELSE Rendered([ui EXCEPT !.submitted = "wrong", !.password = ""])
    /\ UNCHANGED <<gs, gameState, feed, currentQuestion, last, claimed, calc, conn, imp,
                   questionRows, editorData>>

\* ---------------------------------------------------------------- start-up
\* A client whose initial fetch has set gameState and whose subscription the
\* store has registered.
Connected(c) ==
    [sub |-> TRUE, loaded |-> TRUE, fetch |-> "done", data |-> Image(c, InitialRow),
     age |-> 0, dataAge |-> 0]

\* A client that has just mounted App: fetchGameState() is sent and subscribe()
\* is called, neither has reached the store; gameState is still null.
Mounted(c) ==
    [sub |-> FALSE, loaded |-> FALSE, fetch |-> "sent", data |-> Image(c, InitialRow),
     age |-> 0, dataAge |-> 0]

\* The store registers the client's subscription: later writes are pushed to it.
Subscribe(c) ==
    /\ ~conn[c].sub
    /\ conn' = [conn EXCEPT ![c].sub = TRUE]
    /\ UNCHANGED <<gs, gameState, feed, currentQuestion, last, claimed, side>>

\* The store serves the select of fetchGameState.
FetchRead(c) ==
    /\ conn[c].fetch = "sent"
    /\ conn' = [conn EXCEPT ![c].fetch = "read", ![c].data = Image(c, gs),
                             ![c].dataAge = 0]
    /\ UNCHANGED <<gs, gameState, feed, currentQuestion, last, claimed, side>>

\* The reply of fetchGameState arrives: if (data) setGameState(data).
FetchDone(c) ==
    /\ conn[c].fetch = "read"
    /\ gameState' = [gameState EXCEPT ![c] = conn[c].data]
    /\ conn' = [conn EXCEPT ![c].fetch = "done", ![c].loaded = TRUE,
                             ![c].age = conn[c].dataAge, ![c].dataAge = 0]
    /\ currentQuestion' = IF c = Host
                            THEN DeriveCurrentQuestion(conn[c].data, editorData,
                                                       currentQuestion)
                            ELSE currentQuestion
    /\ UNCHANGED <<gs, feed, last, claimed, side>>

\* ---------------------------------------------------------------- status panel
\* What BuzzerStatus renders: the armed panel, or the locked panel with the
\* heading winnerName in the colour `color` above the line "Buzzed in!".
BuzzerStatus(state, winner, teamAName, teamBName) ==
    IF state = "armed"
      THEN [panel |-> "armed", winnerName |-> "", color |-> ""]
      ELSE [panel |-> "locked",
            winnerName |-> IF winner = "a" THEN teamAName ELSE teamBName,
            color |-> IF winner = "a" THEN "indigo" ELSE "amber"]

\* The panel on the host's page.
HostBuzzerStatus ==
    LET g == gameState[Host] IN
    BuzzerStatus(g.buzzer_state, g.buzzer_winner, g.team_a_name, g.team_b_name)

\* ---------------------------------------------------------------- editor
\* EditorPage lists the questions of editorData; Delete on one of them (confirmed)
\* deletes its row.  The game_state row is not touched.
handleDeleteQuestion(id) ==
    /\ id \in editorData
    /\ questionRows' = questionRows \ {id}
    /\ UNCHANGED <<gs, gameState, feed, currentQuestion, last, claimed, calc, conn,
                   imp, ui, editorData>>

\* The editor_updates callback after a change of the content tables: the content
\* is read again, setEditorData(rounds), then the derived-state effect.
fetchEditorData ==
    /\ editorData # questionRows
    /\ editorData' = questionRows
    /\ currentQuestion' = DeriveCurrentQuestion(gameState[Host], questionRows,
                                                currentQuestion)
    /\ UNCHANGED <<gs, gameState, feed, last, claimed, calc, conn, imp, ui,
                   questionRows>>

\* ---------------------------------------------------------------- specification
Init ==
    /\ gs = InitialRow
    /\ gameState = [c \in Clients |-> Image(c, InitialRow)]
    /\ feed = [c \in Clients |-> <<>>]
    /\ currentQuestion = NULL
    /\ last = [op |-> "none", arg |-> NULL, res |-> "none", lag |-> 0, rep |-> FALSE]
    /\ claimed = <<>>
    /\ calc = [order |-> 0, done |-> FALSE, points |-> 0]
    /\ conn = [c \in Clients |-> Connected(c)]
    /\ imp = ImporterOpened([kind |-> "array", rounds |-> <<>>])
    /\ ui = Opened("#host")
    /\ questionRows = Questions
    /\ editorData = Questions

Next ==
    \/ \E qId \in Played : handleSetQuestion(qId)
    \/ handleResetBuzzers
    \/ handleClearBoard
    \/ handleGiveStrike
    \/ \E answer \in AnswerIds : handleRevealAnswer(answer)
    \/ handleRevealAll
    \/ \E c \in Buzzers : handleBuzz(c)
    \/ \E c \in Clients : Receive(c)

Spec == Init /\ [][Next]_vars

\* ---------------------------------------------------------------- manual scores
\* The host's manual controls (scores, names), with a question selected and the
\* buzzer devices claiming.
NextScores ==
    \/ \E t \in Teams, score \in ScoreInputs : handleSetScore(t, score)
    \/ \E t \in Teams, name \in NameInputs : handleSetTeamName(t, name)
    \/ handleResetScores
    \/ \E qId \in Played : handleSetQuestion(qId)
    \/ \E c \in Buzzers : handleBuzz(c)
    \/ \E c \in Clients : Receive(c)

SpecScores == Init /\ [][NextScores]_vars

\* ---------------------------------------------------------------- manual and scored
\* The manual score controls used while answers are revealed.
NextOverwrite ==
    \/ \E t \in Teams, score \in ScoreInputs : handleSetScore(t, score)
    \/ handleResetScores
    \/ \E qId \in Played : handleSetQuestion(qId)
    \/ \E c \in Buzzers : handleBuzz(c)
    \/ \E answer \in AnswerIds : handleRevealAnswer(answer)
    \/ \E c \in Clients : Receive(c)

SpecOverwrite == Init /\ [][NextOverwrite]_vars

\* ---------------------------------------------------------------- content edited
\* The host selects among the questions its page lists while questions are
\* deleted in the editor.
NextEditor ==
    \/ \E qId \in editorData : handleSetQuestion(qId)
    \/ handleClearBoard
    \/ \E c \in Buzzers : handleBuzz(c)
    \/ \E id \in Questions : handleDeleteQuestion(id)
    \/ fetchEditorData
    \/ \E c \in Clients : Receive(c)

SpecEditor == Init /\ [][NextEditor]_vars

\* ---------------------------------------------------------------- play-through
\* One game on question "q2" (answers ranked 1, 2, 3) in which every click is
\* made after the result of the previous one has reached every client.
Settled == Pending = 0

NextPlay ==
    \/ Settled /\ handleSetQuestion("q2")
    \/ Settled /\ \E c \in Buzzers : handleBuzz(c)
    \/ Settled /\ \E answer \in AnswerIds : handleRevealAnswer(answer)
    \/ Settled /\ handleGiveStrike
    \/ \E c \in Clients : Receive(c)

SpecPlay == Init /\ [][NextPlay]_vars

\* ---------------------------------------------------------------- joining
\* The host and team a's device are connected; team b's device mounts App while
\* the game goes on.  A device shows the buzzer only once its gameState is set.
Joining == {"buzzB"}

InitConnect ==
    /\ gs = InitialRow
    /\ gameState = [c \in Clients |-> Image(c, InitialRow)]
    /\ feed = [c \in Clients |-> <<>>]
    /\ currentQuestion = NULL
    /\ last = [op |-> "none", arg |-> NULL, res |-> "none", lag |-> 0, rep |-> FALSE]
    /\ claimed = <<>>
    /\ calc = [order |-> 0, done |-> FALSE, points |-> 0]
    /\ conn = [c \in Clients |-> IF c \in Joining THEN Mounted(c) ELSE Connected(c)]
    /\ imp = ImporterOpened([kind |-> "array", rounds |-> <<>>])
    /\ ui = Opened("#host")
    /\ questionRows = Questions
    /\ editorData = Questions

Fresh == \A c \in Joining : conn[c].age < MaxAge /\ conn[c].dataAge < MaxAge

NextConnect ==
    \/ Fresh /\ \E qId \in Played : handleSetQuestion(qId)
    \/ Fresh /\ handleGiveStrike
    \/ Fresh /\ \E c \in Buzzers : conn[c].loaded /\ handleBuzz(c)
    \/ \E c \in Clients : Receive(c)
    \/ \E c \in Clients : Subscribe(c)
    \/ \E c \in Clients : FetchRead(c)
    \/ \E c \in Clients : FetchDone(c)

SpecConnect == InitConnect /\ [][NextConnect]_vars

\* Fair delivery: a pushed image, a subscription request, a fetch and its reply
\* each arrive eventually.
FairConnect ==
    /\ SpecConnect
    /\ \A c \in Clients : /\ WF_vars(Receive(c))
                           /\ WF_vars(Subscribe(c))
                           /\ WF_vars(FetchRead(c))
                           /\ WF_vars(FetchDone(c))

\* ---------------------------------------------------------------- importing
InitImport ==
    /\ gs = InitialRow
    /\ gameState = [c \in Clients |-> Image(c, InitialRow)]
    /\ feed = [c \in Clients |-> <<>>]
    /\ currentQuestion = NULL
    /\ last = [op |-> "none", arg |-> NULL, res |-> "none", lag |-> 0, rep |-> FALSE]
    /\ claimed = <<>>
    /\ calc = [order |-> 0, done |-> FALSE, points |-> 0]
    /\ conn = [c \in Clients |-> Connected(c)]
    /\ imp \in {ImporterOpened(input) : input \in ImportInputs}
    /\ ui = Opened("#host")
    /\ questionRows = Questions
    /\ editorData = Questions

NextImport ==
    \/ handleImport
    \/ InsertRound
    \/ InsertQuestions
    \/ InsertAnswers

SpecImport == InitImport /\ [][NextImport]_vars

\* ---------------------------------------------------------------- logging in
InitLogin ==
    /\ gs = InitialRow
    /\ gameState = [c \in Clients |-> Image(c, InitialRow)]
    /\ feed = [c \in Clients |-> <<>>]
    /\ currentQuestion = NULL
    /\ last = [op |-> "none", arg |-> NULL, res |-> "none", lag |-> 0, rep |-> FALSE]
    /\ claimed = <<>>
    /\ calc = [order |-> 0, done |-> FALSE, points |-> 0]
    /\ conn = [c \in Clients |-> Connected(c)]
    /\ imp = ImporterOpened([kind |-> "array", rounds |-> <<>>])
    /\ ui \in {Opened(hash) : hash \in Hashes}
    /\ questionRows = Questions
    /\ editorData = Questions

NextLogin ==
    \/ GameStateLoaded
    \/ \E hash \in Hashes : Navigate(hash)
    \/ handleHashChange
    \/ Reload
    \/ \E password \in PasswordInputs : TypePassword(password)
    \/ handleLogin

SpecLogin == InitLogin /\ [][NextLogin]_vars

\* ---------------------------------------------------------------- scoring alone
\* getPoints applied to one display order, for every order of RankInputs.
RankInputs == (0 - MaxRank)..MaxRank

InitPoints ==
    /\ gs = InitialRow
    /\ gameState = [c \in Clients |-> Image(c, InitialRow)]
    /\ feed = [c \in Clients |-> <<>>]
    /\ currentQuestion = NULL
    /\ last = [op |-> "none", arg |-> NULL, res |-> "none", lag |-> 0, rep |-> FALSE]
    /\ claimed = <<>>
    /\ calc \in {[order |-> r, done |-> FALSE, points |-> 0] : r \in RankInputs}
    /\ conn = [c \in Clients |-> Connected(c)]
    /\ imp = ImporterOpened([kind |-> "array", rounds |-> <<>>])
    /\ ui = Opened("#host")
    /\ questionRows = Questions
    /\ editorData = Questions

ApplyGetPoints ==
    /\ ~calc.done
    /\ calc' = [calc EXCEPT !.done = TRUE, !.points = getPoints(calc.order)]
    /\ UNCHANGED <<gs, gameState, feed, currentQuestion, last, claimed, conn, imp, ui,
                   questionRows, editorData>>

NextPoints == ApplyGetPoints

SpecPoints == InitPoints /\ [][NextPoints]_vars

\* ================================================================ properties
\* The step wrote the stored row (every applied update pushes one image).
Wrote == Len(feed'[Host]) = Len(feed[Host]) + 1

\* The step delivered a pushed image to a client; every other step that changes
\* the state is a handler's run.
Delivered == \E c \in Clients : Len(feed'[c]) < Len(feed[c])

\* The number of times x occurs in the list s.
Count(s, x) == Cardinality({i \in 1..Len(s) : s[i] = x})

Score(row, t) == IF t = "a" THEN row.team_a_score ELSE row.team_b_score

AnswersOfCurrent(row) ==
    IF row.current_question_id = NULL THEN {}
    ELSE Range(answers(row.current_question_id))

\* C1: between two arming writes at most one claim takes effect, and while a
\* winner is stored it is the one team whose claim took effect; a claim that
\* loses the race never replaces it.
SingleWinner ==
    /\ Len(claimed) <= 1
    /\ gs.buzzer_winner # NULL => claimed = <<gs.buzzer_winner>>

\* C1 witness: a device that still saw the buzzer armed claimed after the other
\* team's claim had taken effect, and the stored winner is still the first team.
RaceLost ==
    /\ last.op = "buzz"
    /\ last.res = "rejected"
    /\ Len(claimed) = 1
    /\ gs.buzzer_winner = claimed[1]
    /\ last.arg # gs.buzzer_winner

\* C2: a claim that reaches the store while the stored buzzer_state is not armed
\* changes no field of the row and pushes no image.
RejectedClaimNoEffect ==
    [][(~Delivered /\ last'.op = "buzz" /\ gs.buzzer_state # "armed")
         => (gs' = gs /\ feed' = feed)]_vars

\* C2 witness: a claim was sent from a stale armed copy and matched no row.
ClaimRejected ==
    /\ last.op = "buzz"
    /\ last.res = "rejected"
    /\ gs.buzzer_state = "locked"

\* C3: in the stored row a non-null buzzer_winner implies buzzer_state = locked.
WinnerImpliesLocked ==
    gs.buzzer_winner # NULL => gs.buzzer_state = "locked"

\* C3 witness: a winner is stored with the buzzer locked, and the last write
\* applied was a reveal.
WinnerLatched ==
    /\ gs.buzzer_winner # NULL
    /\ gs.buzzer_state = "locked"
    /\ last.op = "reveal"
    /\ last.res = "applied"

\* C4 as stated: a stored winner changes or is cleared only by an arming write
\* (setQuestion, clearBoard, giveStrike, resetBuzzers).
WinnerKeptUntilArm ==
    [][(gs.buzzer_winner # NULL /\ gs'.buzzer_winner # gs.buzzer_winner)
         => last'.op \in ArmOps]_vars

\* C4 amended: a stored winner changes or is cleared only by an arming write or
\* by revealAll, and then it becomes null.
WinnerKeptUntilArmOrRevealAll ==
    [][(gs.buzzer_winner # NULL /\ gs'.buzzer_winner # gs.buzzer_winner)
         => (last'.op \in ArmOps \cup {"revealAll"} /\ gs'.buzzer_winner = NULL)]_vars

\* C4 witness: revealAll was applied after a claim had taken effect, and no
\* winner is stored any more although the buzzer was not armed since.
RevealAllClearedWinner ==
    /\ last.op = "revealAll"
    /\ last.res = "applied"
    /\ Len(claimed) = 1
    /\ gs.buzzer_winner = NULL
    /\ gs.buzzer_state = "locked"

RevealAddsPoints ==
    [][\A x \in AnswerIds :
         (/\ Wrote /\ last'.op = "reveal" /\ last'.arg = x
          /\ gs.buzzer_winner # NULL
          /\ ~includes(gs.revealed_answers_json, x)
          /\ x \in AnswersOfCurrent(gs))
         => (/\ Score(gs', gs.buzzer_winner)
                  = Score(gs, gs.buzzer_winner) + getPoints(display_order(x))
             /\ gs'.revealed_answers_json = Append(gs.revealed_answers_json, x)
             /\ gs'.buzzer_state = "locked"
             /\ gs'.buzzer_winner = gs.buzzer_winner)]_vars

RevealedSubsetOfCurrent ==
    Range(gs.revealed_answers_json) \subseteq AnswersOfCurrent(gs)

\* C9: the write of setQuestion(q) sets current_question_id = q, strikes = 0, an
\* empty revealed list, buzzer_state = armed and no winner in one step, every
\* other field of the row (scores, names) keeping its value.
SetQuestionResets ==
    [][\A q \in Questions :
         (Wrote /\ last'.op = "setQuestion" /\ last'.arg = q)
         => gs' = [gs EXCEPT !.current_question_id = q,
                           !.strikes = 0,
                           !.revealed_answers_json = <<>>,
                           !.buzzer_state = "armed",
                           !.buzzer_winner = NULL]]_vars

\* C9 witness: a question was selected when a team had scored, and the score is
\* still there while the board is reset.
QuestionSelectedAfterScore ==
    /\ last.op = "setQuestion"
    /\ gs.current_question_id = "q1"
    /\ gs.team_a_score = getPoints(display_order("a1"))
    /\ gs.strikes = 0
    /\ gs.revealed_answers_json = <<>>

\* C10: a revealAll write leaves both stored scores as they are.
RevealAllKeepsScores ==
    [][(Wrote /\ last'.op = "revealAll")
         => (/\ gs'.team_a_score = gs.team_a_score
             /\ gs'.team_b_score = gs.team_b_score)]_vars

\* C10 witness: revealAll was applied when one answer had been scored for team b
\* and the other answer was not revealed.
RevealAllAfterScoring ==
    /\ last.op = "revealAll"
    /\ last.res = "applied"
    /\ gs.team_b_score = getPoints(display_order("a1"))
    /\ gs.team_a_score = 0
    /\ gs.revealed_answers_json = <<"a1", "a2">>

\* C11 as stated: after a revealAll write the stored revealed list holds exactly
\* the answers of the question the stored current_question_id names, the buzzer
\* is locked and no winner is stored.
RevealAllShowsCurrent ==
    [][(Wrote /\ last'.op = "revealAll")
         => (/\ Range(gs'.revealed_answers_json) = AnswersOfCurrent(gs')
             /\ gs'.buzzer_state = "locked"
             /\ gs'.buzzer_winner = NULL)]_vars

\* C12: the stored strikes value is an integer from 0 to 3.
StrikesInRange == gs.strikes \in 0..3

\* C12 witness: three strikes are stored and a further Give Strike was refused.
StrikesAtCap ==
    /\ gs.strikes = 3
    /\ last.op = "giveStrike"
    /\ last.res = "skipped"

\* C13 as stated: a step that raises the stored strikes raises it by exactly 1,
\* not past 3, and stores buzzer_state = armed and no winner.
StrikeRaisedByOne ==
    [][gs'.strikes > gs.strikes
         => (/\ gs'.strikes = gs.strikes + 1
             /\ gs'.strikes <= 3
             /\ gs'.buzzer_state = "armed"
             /\ gs'.buzzer_winner = NULL)]_vars

\* C14 as stated: Give Strike run while the stored row has strikes = 3 changes no
\* field of the stored row.
StrikeAtCapNoEffect ==
    [][(~Delivered /\ last'.op = "giveStrike" /\ gs.strikes = 3) => gs' = gs]_vars

\* C15 as stated: Give Strike run while the stored current_question_id is null
\* leaves the stored strikes, buzzer_state and buzzer_winner as they are.
StrikeWithoutQuestionNoEffect ==
    [][(~Delivered /\ last'.op = "giveStrike" /\ gs.current_question_id = NULL)
         => (/\ gs'.strikes = gs.strikes
             /\ gs'.buzzer_state = gs.buzzer_state
             /\ gs'.buzzer_winner = gs.buzzer_winner)]_vars

\* C16: getPoints gives 50, 40, 30, 20, 15, 10, 5, 5 for the ranks 1 to 8 and 0
\* for every other rank (9 and above, 0, negative ranks).
ScoreTableExact ==
    calc.done =>
      calc.points = (CASE calc.order = 1 -> 50 [] calc.order = 2 -> 40
                       [] calc.order = 3 -> 30 [] calc.order = 4 -> 20
                       [] calc.order = 5 -> 15 [] calc.order = 6 -> 10
                       [] calc.order = 7 -> 5  [] calc.order = 8 -> 5
                       [] OTHER -> 0)

\* C16 witness: getPoints was applied to rank 7 and gave 5.
RankSevenScored ==
    /\ calc.done
    /\ calc.order = 7
    /\ calc.points = 5

\* C17 as stated: every rank from 8 upwards is worth what rank 8 is worth.
RankAboveEightAsEight ==
    (calc.done /\ calc.order >= 8) => calc.points = getPoints(8)

\* C17 amended: every rank above 8 is worth 0 points, which is not what rank 8
\* is worth (5).
RankAboveEightScoresZero ==
    (calc.done /\ calc.order > 8) => (calc.points = 0 /\ calc.points # getPoints(8))

\* C17 witness: getPoints was applied to rank 9 and gave 0.
RankNineScoredZero ==
    /\ calc.done
    /\ calc.order = 9
    /\ calc.points = 0

\* C18: a claim that takes effect stores buzzer_state = locked and the claiming
\* team as buzzer_winner, and every other field of the row (scores, strikes,
\* revealed list, current question, names) keeps its value; the claim is the only
\* write a buzzer device issues.
ClaimChangesBuzzerOnly ==
    [][(Wrote /\ last'.op = "buzz")
         => (/\ last'.arg \in Teams
             /\ gs' = [gs EXCEPT !.buzzer_state = "locked",
                                !.buzzer_winner = last'.arg])]_vars

\* C18 witness: team b's claim took effect after an answer had been scored for
\* team a and a strike given, and score, strike and revealed answer are still stored.
ClaimAfterScoreAndStrike ==
    /\ last.op = "buzz"
    /\ last.res = "applied"
    /\ gs.buzzer_winner = "b"
    /\ gs.strikes = 1
    /\ gs.team_a_score = getPoints(display_order("a1"))
    /\ gs.revealed_answers_json = <<"a1">>

\* C19: the write of setScore(team, v), v an integer (negative ones included),
\* stores v as that team's score and leaves every other field of the row, the
\* other team's score included, as it is.
SetScoreExact ==
    [][(Wrote /\ last'.op = "setScore" /\ ~isNaN(last'.arg.score))
         => gs' = IF last'.arg.team = "a"
                    THEN [gs EXCEPT !.team_a_score = last'.arg.score.val]
                    ELSE [gs EXCEPT !.team_b_score = last'.arg.score.val]]_vars

\* C19 witness: team a's score was set to a negative value while team b's score
\* was 3, a question was selected and team b held the buzzer.
NegativeScoreSet ==
    /\ last.op = "setScore"
    /\ last.res = "applied"
    /\ last.arg.team = "a"
    /\ last.arg.score.val < 0
    /\ gs.team_a_score = last.arg.score.val
    /\ gs.team_b_score = 3
    /\ gs.current_question_id = "q1"
    /\ gs.buzzer_winner = "b"

\* C20: the write of Reset Buzzers stores buzzer_state = armed and no winner,
\* whatever the stored row held (armed or locked, with or without a winner), and
\* leaves scores, strikes, revealed list and current question as they are.
ResetArms ==
    [][(Wrote /\ last'.op = "resetBuzzers")
         => gs' = [gs EXCEPT !.buzzer_state = "armed", !.buzzer_winner = NULL]]_vars

\* C20 witness: the buzzers were reset after a scored answer, a strike and a
\* further claim, and score, strike and revealed answer are still stored.
ResetAfterScoreAndStrike ==
    /\ last.op = "resetBuzzers"
    /\ last.res = "applied"
    /\ gs.buzzer_state = "armed"
    /\ gs.buzzer_winner = NULL
    /\ gs.strikes = 1
    /\ gs.team_a_score = getPoints(display_order("a1"))
    /\ gs.revealed_answers_json = <<"a1">>

\* C21: the write of Clear Board stores current_question_id = null, strikes = 0,
\* an empty revealed list, buzzer_state = armed and no winner, whatever the row
\* held, every other field (scores, names) keeping its value: the effect of
\* selecting a question, but for the null question.
ClearBoardResets ==
    [][(Wrote /\ last'.op = "clearBoard")
         => gs' = [gs EXCEPT !.current_question_id = NULL,
                           !.strikes = 0,
                           !.revealed_answers_json = <<>>,
                           !.buzzer_state = "armed",
                           !.buzzer_winner = NULL]]_vars

\* C21 witness: the board was cleared when team a had scored, and the score is
\* still stored while question, strikes, revealed list and buzzer are reset.
BoardClearedAfterScore ==
    /\ last.op = "clearBoard"
    /\ last.res = "applied"
    /\ gs.team_a_score = getPoints(display_order("a1"))
    /\ gs.current_question_id = NULL
    /\ gs.revealed_answers_json = <<>>
    /\ gs.strikes = 0
    /\ gs.buzzer_state = "armed"

\* C22: the write of Reset Scores stores 0 for both teams, whatever the row held,
\* and leaves current question, buzzer state, winner, strikes and revealed list
\* (and the names) as they are.
ResetScoresZeroes ==
    [][(Wrote /\ last'.op = "resetScores")
         => gs' = [gs EXCEPT !.team_a_score = 0, !.team_b_score = 0]]_vars

\* C22 witness: the scores were reset while a question was selected and team b
\* held the buzzer, and question and winner are still stored.
ScoresResetWhileLocked ==
    /\ last.op = "resetScores"
    /\ last.res = "applied"
    /\ gs.team_a_score = 0
    /\ gs.team_b_score = 0
    /\ gs.current_question_id = "q1"
    /\ gs.buzzer_state = "locked"
    /\ gs.buzzer_winner = "b"

\* C23 as stated: every write of the row is pushed to every subscribed client,
\* and under fair in-order delivery, once the writes stop, the local gameState of
\* every client eventually equals the stored row and stays so.
FeedConverges ==
    /\ [][gs' # gs => \A c \in Clients :
                        conn[c].sub => feed'[c] = Append(feed[c], Image(c, gs'))]_vars
    /\ (<>[][~Wrote]_vars) => <>[](\A c \in Clients : gameState[c] = Image(c, gs))

\* C24: the play-through on a question with answers ranked 1, 2, 3, every click
\* made with the clients up to date.  Team a holding the buzzer, the reveal of the
\* rank-1 answer adds 50 to team a's score, makes the revealed list that one id
\* and leaves the buzzer locked; Give Strike then stores strikes = 1, armed and no
\* winner; team b's claim stores winner b; the reveal of the rank-2 answer then
\* adds 40 to team b's score and team a keeps its score.
PlayThrough ==
    /\ [][(/\ Settled /\ Wrote /\ last'.op = "reveal" /\ last'.arg = "b1"
            /\ gs.buzzer_winner = "a" /\ gs.revealed_answers_json = <<>>)
           => (/\ gs'.team_a_score = gs.team_a_score + 50
               /\ gs'.revealed_answers_json = <<"b1">>
               /\ gs'.buzzer_state = "locked")]_vars
    /\ [][(/\ Settled /\ Wrote /\ last'.op = "giveStrike"
            /\ gs.strikes = 0 /\ gs.revealed_answers_json = <<"b1">>)
           => (/\ gs'.strikes = 1
               /\ gs'.buzzer_state = "armed"
               /\ gs'.buzzer_winner = NULL)]_vars
    /\ [][(/\ Settled /\ Wrote /\ last'.op = "buzz" /\ last'.arg = "b")
           => gs'.buzzer_winner = "b"]_vars
    /\ [][(/\ Settled /\ Wrote /\ last'.op = "reveal" /\ last'.arg = "b2"
            /\ gs.buzzer_winner = "b" /\ gs.revealed_answers_json = <<"b1">>)
           => (/\ gs'.team_b_score = gs.team_b_score + 40
               /\ gs'.team_a_score = gs.team_a_score
               /\ gs'.revealed_answers_json = <<"b1", "b2">>)]_vars

\* C24 witness: the end of the play-through: team a has the 50 points of the
\* rank-1 answer, one strike is stored, and team b, holding the buzzer, has just
\* been given the 40 points of the rank-2 answer.
PlayedThrough ==
    /\ last.op = "reveal"
    /\ last.arg = "b2"
    /\ last.res = "applied"
    /\ gs.team_a_score = 50
    /\ gs.team_b_score = 40
    /\ gs.revealed_answers_json = <<"b1", "b2">>
    /\ gs.strikes = 1
    /\ gs.buzzer_state = "locked"
    /\ gs.buzzer_winner = "b"

\* The input is no array of rounds: no JSON, no array, or an array with an
\* element that is no round.
Malformed(input) ==
    \/ input.kind # "array"
    \/ \E k \in 1..Len(input.rounds) : ~input.rounds[k].ok

\* C25 as stated: given a malformed input the importer issues no insert, and
\* once it has stopped it has reported an error.
MalformedInputNoInsert ==
    (imp.pc # "idle" /\ Malformed(imp.input))
      => (/\ imp.log = <<>>
          /\ imp.rows = {}
          /\ (imp.pc \in {"failed", "done"} => imp.status.error))

TableRank(table) == CASE table = "rounds" -> 1 [] table = "questions" -> 2 [] OTHER -> 3

\* The rounds the importer has finished with.
Completed ==
    CASE imp.pc = "idle" -> 0
      [] imp.pc = "done" -> Len(imp.input.rounds)
      [] OTHER -> imp.i - 1

\* C26: the inserts are issued round by round in list order, within a round the
\* Round, then its Questions, then their Answers; only the last insert issued can
\* be a rejected one, and then the importer has stopped with an error; the rows
\* of every round finished before are committed.
ImportInOrder ==
    LET log == imp.log
        rounds == imp.input.rounds
    IN
    /\ log # <<>> => (log[1].table = "rounds" /\ log[1].round = 1)
    /\ \A k \in 1..(Len(log) - 1) :
          /\ log[k].ok
          /\ \/ /\ log[k + 1].round = log[k].round
                /\ TableRank(log[k + 1].table) = TableRank(log[k].table) + 1
             \/ /\ log[k + 1].round = log[k].round + 1
                /\ log[k + 1].table = "rounds"
    /\ (log # <<>> /\ ~log[Len(log)].ok) => (imp.pc = "failed" /\ imp.status.error)
    /\ \A r \in 1..Completed :
          /\ Row("rounds", r, 0, 0, 0) \in imp.rows
          /\ \A j \in 1..Len(rounds[r].questions) :
                /\ Row("questions", r, j, j, 0) \in imp.rows
                /\ \A k \in 1..Len(rounds[r].questions[j]) :
                      \E row \in imp.rows :
                        /\ row.table = "answers" /\ row.round = r
                        /\ row.from = j /\ row.ord = rounds[r].questions[j][k]

\* C26 witness: the insert of the second round's answers was rejected; the
\* importer has stopped with an error and the first round's answers are committed.
ImportStoppedInSecondRound ==
    /\ imp.pc = "failed"
    /\ imp.status.error
    /\ imp.i = 2
    /\ imp.log[Len(imp.log)] = [table |-> "answers", round |-> 2, ok |-> FALSE]
    /\ \E row \in imp.rows : row.table = "answers" /\ row.round = 1

\* C27: the host and the editor view are rendered only with isAdmin true, the
\* password having been accepted in this tab; a guarded page requested without it
\* renders nothing, sets the hash to #login and the login view comes next; a
\* wrong password changes neither isAdmin nor the session flag.
AdminViewsGuarded ==
    /\ [](View(ui) \in {"host", "editor"} => (ui.isAdmin /\ ui.session))
    /\ [](View(ui) = "null" => (~ui.isAdmin /\ ui.hash = "#login"))
    /\ [][View(ui) = "null" => View(ui') = "login"]_vars
    /\ [][(ui'.submitted = "wrong" /\ ui' # ui)
           => (ui'.isAdmin = ui.isAdmin /\ ui'.session = ui.session)]_vars

\* C27 witness: a wrong password was submitted on the login view at #login, and
\* neither isAdmin nor the session flag is set.
WrongPasswordRefused ==
    /\ View(ui) = "login"
    /\ ui.page = "#login"
    /\ ui.submitted = "wrong"
    /\ ~ui.isAdmin
    /\ ~ui.session

\* C28 as stated: when the host reveals two distinct answers one right after the
\* other (no other handler run in between) while a winner is stored, then after
\* the second write the stored list holds both answers and the winner's stored
\* score has the points of both, whether or not the first result had reached the
\* host.
NoRevealLost ==
    [][(/\ Wrote /\ last'.op = "reveal"
        /\ last.op = "reveal" /\ last.res = "applied" /\ last'.arg # last.arg
        /\ gs.buzzer_winner # NULL)
       => (/\ includes(gs'.revealed_answers_json, last.arg)
           /\ includes(gs'.revealed_answers_json, last'.arg)
           /\ Score(gs', gs.buzzer_winner)
                = Score(gs, gs.buzzer_winner) + getPoints(display_order(last'.arg)))]_vars

\* C29 as stated: a reveal write that raises a team's stored score raises that of
\* the team stored as buzzer_winner when the write is applied.
RevealCreditsStoredWinner ==
    [][\A t \in Teams :
         (Wrote /\ last'.op = "reveal" /\ Score(gs', t) > Score(gs, t))
         => gs.buzzer_winner = t]_vars

\* C30 as stated: a reveal write leaves the stored score of every team that is
\* not the stored winner as it is, also when setScore or resetScores has written
\* it since the host's copy was taken.
RevealKeepsOtherScore ==
    [][\A t \in Teams :
         (Wrote /\ last'.op = "reveal" /\ gs.buzzer_winner # t)
         => Score(gs', t) = Score(gs, t)]_vars

\* C31 as stated: a client's gameState, once set, is never changed to the image
\* of an older update (neither by the reply of the initial fetch nor by the
\* feed), and under fair delivery, once the writes stop, no client stays behind
\* the stored row.
SnapshotNeverBackwards ==
    /\ [][\A c \in Clients :
            (conn[c].loaded /\ gameState'[c] # gameState[c])
            => conn'[c].age <= conn[c].age]_vars
    /\ (<>[][~Wrote]_vars) => <>[](\A c \in Clients : conn[c].age = 0)

\* C32: the stored buzzer_state goes from locked to armed only in the write of a
\* host arming operation (selectQuestion, clearBoard, giveStrike, reset), and no
\* claim is applied while the stored buzzer is locked: after revealAll no team
\* claims until the host arms again.
ArmedOnlyByHost ==
    [][/\ (gs.buzzer_state = "locked" /\ gs'.buzzer_state = "armed")
           => (Wrote /\ last'.op \in ArmOps)
       /\ gs.buzzer_state = "locked" => ~(Wrote /\ last'.op = "buzz")]_vars

\* C32 witness: after revealAll (board fully shown, buzzer locked, no winner) a
\* device that still showed the armed buzzer claimed and was refused.
ClaimRefusedAfterRevealAll ==
    /\ last.op = "buzz"
    /\ last.res = "rejected"
    /\ gs.buzzer_state = "locked"
    /\ gs.buzzer_winner = NULL
    /\ gs.current_question_id = "q1"
    /\ gs.revealed_answers_json = AllAnswerIds("q1")
    /\ claimed = <<>>

\* C33: the stored revealed_answers list never holds an answer id more than once,
\* whatever reveals and revealAlls have run, repeated clicks on a stale copy
\* included.
NoDuplicateRevealed ==
    \A x \in AnswerIds : Count(gs.revealed_answers_json, x) <= 1

\* C33 witness: with one answer listed, the host clicked the other answer twice,
\* the second time before the first result had arrived; both updates were
\* applied and each answer is listed once.
SecondAnswerRevealedTwice ==
    /\ last.op = "reveal"
    /\ last.arg = "a2"
    /\ last.res = "applied"
    /\ last.rep
    /\ gs.revealed_answers_json = <<"a1", "a2">>

\* C34 as stated: on the host, currentQuestion is non-null only if it is the
\* question named by the current_question_id of gameState, and it is null while
\* that id names a question that editorData does not hold.
CurrentQuestionMatchesSnapshot ==
    LET id == gameState[Host].current_question_id IN
    /\ currentQuestion # NULL => currentQuestion = id
    /\ (id # NULL /\ id \notin editorData) => currentQuestion = NULL

\* The host's panel shows team t as having buzzed in.
ShownBuzzedIn(t) ==
    LET g == gameState[Host] IN
    /\ HostBuzzerStatus.panel = "locked"
    /\ HostBuzzerStatus.winnerName = (IF t = "a" THEN g.team_a_name ELSE g.team_b_name)
    /\ HostBuzzerStatus.color = (IF t = "a" THEN "indigo" ELSE "amber")

\* C35 as stated: the host's buzzer status panel shows a team as having buzzed in
\* only when the buzzer_winner it is given is that team; locked with no winner
\* (after revealAll) it names neither team.
StatusNamesWinnerOnly ==
    \A t \in Teams : ShownBuzzedIn(t) => gameState[Host].buzzer_winner = t

\* C36 as stated: after an import that completed, every answer row committed is
\* attached to the question it was listed under in the input, in whatever order
\* the store returned the inserted question rows.
AnswersAttachedAsListed ==
    imp.pc = "done"
    => \A row \in imp.rows : row.table = "answers" => row.q = row.from

====
